---- MODULE Spec2Model ----
(***************************************************************************)
(* Bonding-curve issuance and vesting engine: BondingCurve (pricing, fees, *)
(* graduation) and ERC20Token (supply, ownership, deployer vesting), as    *)
(* deployed by TokenFactory.createToken.  Every external call is one       *)
(* atomic transaction: it either commits all its effects or reverts and    *)
(* leaves the storage as it was.                                           *)
(*                                                                         *)
(* Amounts are scaled so that the products stay inside TLC's integers:     *)
(* SCALE stands for 1e18, and the other constants keep their role, not     *)
(* their magnitude.  uint256 overflow is out of reach of these amounts.    *)
(***************************************************************************)
EXTENDS Integers, Sequences, FiniteSets, TLC

\* ---------------------------------------------------------------- constants
SCALE == 1000
BASE_PRICE == 100
PLATFORM_FEE == 75
DEPLOYER_FEE == 0
FEE_DENOMINATOR == 10000
GRADUATION_THRESHOLD == 1000
BURN_PERCENTAGE == 1000
MIN_BUY == 50
TOTAL_SUPPLY == 400050
DEPLOYER_ALLOCATION_PERCENT == 2
DEPLOYER_ALLOCATION == (TOTAL_SUPPLY * DEPLOYER_ALLOCATION_PERCENT) \div 100
VESTING_DURATION == 2
TOKEN_CREATION_FEE == 3

\* ------------------------------------------------------------------- bounds
MaxCurveCalls == 3
MaxTokenCalls == 3
MaxTime == 3

\* ----------------------------------------------------------------- accounts
Curve == "curve"
Factory == "factory"
Deployer == "deployer"
Platform == "platform"
Alice == "alice"
\* address(0): holds nothing and makes no call
Zero == "zero"
Accounts == {Curve, Factory, Deployer, Platform, Alice}
Users == {Alice, Deployer}
Buyers == {Alice}
Callers == {Alice, Deployer, Platform}
\* type(uint256).max: an allowance that transferFrom never decrements
Unlimited == 0 - 1

BuyAmts == {MIN_BUY - 1, MIN_BUY, 500, 506}
\* amount of an approval: to the curve a fixed amount or type(uint256).max, to
\* another user a fixed amount
ApproveAmts(spender) == IF spender = Curve THEN {1000, Unlimited} ELSE {1000}

VARIABLES
    owner,                  \* ERC20Token.owner
    balanceOf,              \* ERC20 balances
    allowance,              \* ERC20 allowances: allowance[owner][spender]
    totalSupply,            \* ERC20 total supply
    vestedAmount,           \* ERC20Token.vestedAmount
    milestonesReached,      \* ERC20Token.milestonesReached
    now,                    \* the last block.timestamp read, from vestingStartTime
    totalEthInvested,       \* BondingCurve.totalEthInvested
    hasGraduated,           \* BondingCurve.hasGraduated
    platformFeesCollected,  \* BondingCurve.platformFeesCollected
    liquidityAdded,         \* BondingCurve.liquidityAdded
    ethBalance,             \* address(curve).balance
    lastCall,               \* the call that made the last step, and its outcome
    events,                 \* the events the last call emitted, in order
    netSum,                 \* history: sum of netCollateral over successful buys
    sold,                   \* history: some sell has succeeded
    nGraduated,             \* history: number of Graduated events ever emitted
    vestedMinted,           \* history: tokens claimVestedTokens has added to the deployer
    deployerAlone,          \* history: every call so far was made by the deployer
    burnReported,           \* history: some burnUnvestedTokens has succeeded
    creationValue,          \* the ether sent with createToken
    platformPaid,           \* the ether createToken passed on to the platform
    curveCalls,             \* number of committed calls to the curve
    tokenCalls              \* number of committed calls to the token or the factory

vars == <<owner, balanceOf, allowance, totalSupply, vestedAmount, milestonesReached,
          now, totalEthInvested, hasGraduated, platformFeesCollected, liquidityAdded,
          ethBalance, lastCall, events, netSum, sold, nGraduated, vestedMinted,
          deployerAlone, burnReported, creationValue, platformPaid,
          curveCalls, tokenCalls>>

\* The contracts' storage (and the curve's ether) as one record.
Storage ==
    [owner |-> owner, balanceOf |-> balanceOf, allowance |-> allowance,
     totalSupply |-> totalSupply, vestedAmount |-> vestedAmount,
     milestonesReached |-> milestonesReached,
     totalEthInvested |-> totalEthInvested, hasGraduated |-> hasGraduated,
     platformFeesCollected |-> platformFeesCollected,
     liquidityAdded |-> liquidityAdded, ethBalance |-> ethBalance]

\* A reverted call: no storage change, no event.
Revert(s, reason) == [ok |-> FALSE, err |-> reason, st |-> s, ev |-> <<>>]
Ok(s, ev) == [ok |-> TRUE, err |-> "", st |-> s, ev |-> ev]

\* ------------------------------------------------------------ ERC20Token
\* A function that started on storage `s` goes on after the internal call with
\* outcome `r`: it fails as the call did, or emits `ev` after the call's events.
Then(s, r, ev) == IF ~r.ok THEN Revert(s, r.err) ELSE Ok(r.st, r.ev \o ev)

\* ERC20._mint: no minting to address(0)
_mint(s, to, amount) ==
    IF to = Zero THEN Revert(s, "ERC20InvalidReceiver")
    ELSE Ok([s EXCEPT !.balanceOf[to] = @ + amount, !.totalSupply = @ + amount], <<>>)

\* ERC20._burn: no burning from address(0), nor of more than the account holds
_burn(s, from, amount) ==
    IF from = Zero THEN Revert(s, "ERC20InvalidSender")
    ELSE IF s.balanceOf[from] < amount THEN Revert(s, "ERC20InsufficientBalance")
    ELSE Ok([s EXCEPT !.balanceOf[from] = @ - amount, !.totalSupply = @ - amount], <<>>)

\* ERC20Token.mint
mint(s, sender, to, amount) ==
    IF sender # s.owner THEN Revert(s, "Only owner")
    ELSE Then(s, _mint(s, to, amount),
              <<[name |-> "TokensMinted", to |-> to, amount |-> amount]>>)

\* ERC20Token.burn
burn(s, sender, amount) ==
    Then(s, _burn(s, sender, amount),
         <<[name |-> "TokensBurned", from |-> sender, amount |-> amount]>>)

\* Variant of burnFrom that takes the amount out of the supply and leaves the
\* account's holdings as they are.
burnFrom_holdingsKept(s, account, amount) ==
    IF s.balanceOf[account] < amount THEN Revert(s, "ERC20InsufficientBalance")
    ELSE Ok([s EXCEPT !.totalSupply = @ - amount], <<>>)

\* burnFrom(account, amount) as the curve calls it on graduation: destroys
\* `amount` of the account's own holdings, and fails when it holds less.
burnFrom(s, account, amount) == _burn(s, account, amount)

\* ERC20.transfer: no transfer to address(0), nor of more than the sender holds
transfer(s, sender, to, amount) ==
    IF to = Zero THEN Revert(s, "ERC20InvalidReceiver")
    ELSE IF s.balanceOf[sender] < amount THEN Revert(s, "ERC20InsufficientBalance")
    ELSE Ok([s EXCEPT !.balanceOf[sender] = @ - amount, !.balanceOf[to] = @ + amount], <<>>)

\* ERC20.approve: msg.sender lets `spender` move up to `amount` of its tokens;
\* address(0) cannot be made a spender
approve(s, sender, spender, amount) ==
    IF spender = Zero THEN Revert(s, "ERC20InvalidSpender")
    ELSE Ok([s EXCEPT !.allowance[sender][spender] = amount], <<>>)

\* ERC20.transferFrom, msg.sender being the spender: the allowance is checked
\* and spent first (an unlimited one is left as it is), then the tokens move
\* as in transfer.  It reverts with the token's own error and returns true
\* whenever it returns.
transferFrom(s, sender, from, to, amount) ==
    IF s.allowance[from][sender] # Unlimited /\ s.allowance[from][sender] < amount
    THEN Revert(s, "ERC20InsufficientAllowance")
    ELSE
    LET spent == [s EXCEPT !.allowance[from][sender] =
                               IF @ = Unlimited THEN @ ELSE @ - amount]
        t == transfer(spent, from, to, amount)
    IN  IF ~t.ok THEN Revert(s, t.err) ELSE t

\* ERC20Token.transferOwnership
transferOwnership(s, sender, newOwner) ==
    IF sender # s.owner THEN Revert(s, "Only owner")
    ELSE IF newOwner = Zero THEN Revert(s, "Zero address")
    ELSE Ok([s EXCEPT !.owner = newOwner], <<>>)

\* TokenFactory.transferTokenOwnership
transferTokenOwnership(s, sender, newOwner) ==
    IF sender # Deployer THEN Revert(s, "Only deployer")
    ELSE transferOwnership(s, Factory, newOwner)

\* Variant of calculateVestedAmount that stays linear after the vesting window.
calculateVestedAmount_linearForever(s, t) ==
    (DEPLOYER_ALLOCATION * t) \div VESTING_DURATION

\* Variant of calculateVestedAmount that ignores the milestones.
calculateVestedAmount_gateIgnored(s, t) ==
    IF t >= VESTING_DURATION
    THEN DEPLOYER_ALLOCATION
    ELSE (DEPLOYER_ALLOCATION * t) \div VESTING_DURATION

\* ERC20Token.calculateVestedAmount
calculateVestedAmount(s, t) ==
    IF t >= VESTING_DURATION
    THEN (IF s.milestonesReached THEN DEPLOYER_ALLOCATION ELSE 0)
    ELSE (DEPLOYER_ALLOCATION * t) \div VESTING_DURATION

\* Variant of claimVestedTokens that records the formula's value even when it
\* is below what has been vested.
claimVestedTokens_recordsLower(s, sender, t) ==
    IF sender # Deployer THEN Revert(s, "Only deployer")
    ELSE LET newlyVested == calculateVestedAmount(s, t) IN
         IF newlyVested > s.vestedAmount
         THEN LET amountToVest == newlyVested - s.vestedAmount IN
              Then(s, _mint([s EXCEPT !.vestedAmount = newlyVested], Deployer, amountToVest),
                   <<[name |-> "DeployerTokensVested", amount |-> amountToVest]>>)
         ELSE Ok([s EXCEPT !.vestedAmount = newlyVested], <<>>)

\* Variant of claimVestedTokens that does not record what it has vested.
claimVestedTokens_notRecorded(s, sender, t) ==
    IF sender # Deployer THEN Revert(s, "Only deployer")
    ELSE LET newlyVested == calculateVestedAmount(s, t) IN
         IF newlyVested > s.vestedAmount
         THEN LET amountToVest == newlyVested - s.vestedAmount IN
              Then(s, _mint(s, Deployer, amountToVest),
                   <<[name |-> "DeployerTokensVested", amount |-> amountToVest]>>)
         ELSE Ok(s, <<>>)

\* ERC20Token.claimVestedTokens
claimVestedTokens(s, sender, t) ==
    IF sender # Deployer THEN Revert(s, "Only deployer")
    ELSE LET newlyVested == calculateVestedAmount(s, t) IN
         IF newlyVested > s.vestedAmount
         THEN LET amountToVest == newlyVested - s.vestedAmount IN
              Then(s, _mint([s EXCEPT !.vestedAmount = newlyVested], Deployer, amountToVest),
                   <<[name |-> "DeployerTokensVested", amount |-> amountToVest]>>)
         ELSE Ok(s, <<>>)

\* ERC20Token.setMilestonesReached
setMilestonesReached(s, sender) ==
    IF sender # s.owner THEN Revert(s, "Only owner")
    ELSE Ok([s EXCEPT !.milestonesReached = TRUE], <<[name |-> "MilestonesReached"]>>)

\* Variant of burnUnvestedTokens that reports the whole allocation.
burnUnvestedTokens_reportsAllocation(s, sender, t) ==
    IF sender # s.owner /\ sender # Deployer THEN Revert(s, "Unauthorized")
    ELSE IF ~(t > VESTING_DURATION) THEN Revert(s, "Vesting ongoing")
    ELSE IF s.milestonesReached THEN Revert(s, "Milestones reached")
    ELSE Ok(s, <<[name |-> "UnvestedTokensBurned", amount |-> DEPLOYER_ALLOCATION]>>)

\* ERC20Token.burnUnvestedTokens
burnUnvestedTokens(s, sender, t) ==
    IF sender # s.owner /\ sender # Deployer THEN Revert(s, "Unauthorized")
    ELSE IF ~(t > VESTING_DURATION) THEN Revert(s, "Vesting ongoing")
    ELSE IF s.milestonesReached THEN Revert(s, "Milestones reached")
    ELSE IF s.vestedAmount > DEPLOYER_ALLOCATION THEN Revert(s, "Panic: underflow")
    ELSE Ok(s, <<[name |-> "UnvestedTokensBurned",
                  amount |-> DEPLOYER_ALLOCATION - s.vestedAmount]>>)

\* ----------------------------------------------------------- BondingCurve
\* BondingCurve.getMarketCap
getMarketCap(s) == s.totalEthInvested

\* BondingCurve.getCurrentPrice
getCurrentPrice(s) ==
    IF s.totalSupply = 0 THEN BASE_PRICE
    ELSE (s.totalEthInvested * SCALE) \div s.totalSupply

\* Variant of _calculateFees that never takes the fee out of the net amount.
_calculateFees_feeNotDeducted(s, amount) ==
    IF s.hasGraduated
    THEN [netAmount |-> amount, platformFee |-> 0, deployerFee |-> 0]
    ELSE [netAmount |-> amount,
          platformFee |-> (amount * PLATFORM_FEE) \div FEE_DENOMINATOR,
          deployerFee |-> (amount * DEPLOYER_FEE) \div FEE_DENOMINATOR]

\* Variant of _calculateFees that rounds the platform fee up.
_calculateFees_roundUp(s, amount) ==
    IF s.hasGraduated
    THEN [netAmount |-> amount, platformFee |-> 0, deployerFee |-> 0]
    ELSE LET platformFee == (amount * PLATFORM_FEE + FEE_DENOMINATOR - 1) \div FEE_DENOMINATOR
             deployerFee == (amount * DEPLOYER_FEE) \div FEE_DENOMINATOR
         IN [netAmount |-> amount - platformFee - deployerFee,
             platformFee |-> platformFee, deployerFee |-> deployerFee]

\* BondingCurve._calculateFees
_calculateFees(s, amount) ==
    IF s.hasGraduated
    THEN [netAmount |-> amount, platformFee |-> 0, deployerFee |-> 0]
    ELSE LET platformFee == (amount * PLATFORM_FEE) \div FEE_DENOMINATOR
             deployerFee == (amount * DEPLOYER_FEE) \div FEE_DENOMINATOR
         IN [netAmount |-> amount - platformFee - deployerFee,
             platformFee |-> platformFee, deployerFee |-> deployerFee]

\* Variant of calculateBuyReturn that always charges the base price.
calculateBuyReturn_atBasePrice(s, ethIn) == (ethIn * SCALE) \div BASE_PRICE

\* BondingCurve.calculateBuyReturn; the caller has checked that the price is not 0
calculateBuyReturn(s, ethIn) == (ethIn * SCALE) \div getCurrentPrice(s)

\* BondingCurve.calculateSellReturn
calculateSellReturn(s, tokensIn) == (tokensIn * getCurrentPrice(s)) \div SCALE

\* BondingCurve._checkGraduation
_checkGraduation(s) ==
    IF ~s.hasGraduated THEN getMarketCap(s) >= GRADUATION_THRESHOLD ELSE FALSE

\* Variant of _executeGraduation that forgets to set hasGraduated.
_executeGraduation_latchNotSet(s) ==
    LET currentSupply == s.totalSupply
        burnAmount == (currentSupply * BURN_PERCENTAGE) \div FEE_DENOMINATOR
        b == IF burnAmount > 0 THEN burnFrom(s, Curve, burnAmount) ELSE Ok(s, <<>>)
    IN IF ~b.ok THEN Revert(s, b.err)
       ELSE LET s2 == [b.st EXCEPT !.liquidityAdded = TRUE] IN
            Ok(s2, <<[name |-> "Graduated", marketCap |-> getMarketCap(s2),
                      liquidityAdded |-> s2.ethBalance]>>)

\* BondingCurve._executeGraduation
_executeGraduation(s) ==
    LET s1 == [s EXCEPT !.hasGraduated = TRUE]
        currentSupply == s1.totalSupply
        burnAmount == (currentSupply * BURN_PERCENTAGE) \div FEE_DENOMINATOR
        b == IF burnAmount > 0 THEN burnFrom(s1, Curve, burnAmount) ELSE Ok(s1, <<>>)
    IN IF ~b.ok THEN Revert(s, b.err)
       ELSE LET s2 == [b.st EXCEPT !.liquidityAdded = TRUE] IN
            Ok(s2, <<[name |-> "Graduated", marketCap |-> getMarketCap(s2),
                      liquidityAdded |-> s2.ethBalance]>>)

\* Variant of buy that mints even when the computed amount is 0.
buy_zeroOutputAllowed(s, sender, value) ==
    IF value < MIN_BUY THEN Revert(s, "Buy amount too small")
    ELSE IF s.hasGraduated THEN Revert(s, "Curve has graduated")
    ELSE
    LET s0 == [s EXCEPT !.ethBalance = @ + value]
        fees == _calculateFees(s0, value)
        ethForTokens == fees.netAmount
        platformFee == fees.platformFee
        price == getCurrentPrice(s0)
    IN  IF price = 0 THEN Revert(s, "Panic: division by zero")
        ELSE
        LET tokensBought == calculateBuyReturn(s0, ethForTokens) IN
        LET s1 == [s0 EXCEPT !.platformFeesCollected = @ + platformFee]
            m == mint(s1, Curve, sender, tokensBought)
        IN  IF ~m.ok THEN Revert(s, m.err)
            ELSE
            LET s2 == [m.st EXCEPT !.totalEthInvested = @ + ethForTokens]
                g == IF _checkGraduation(s2) THEN _executeGraduation(s2) ELSE Ok(s2, <<>>)
            IN  IF ~g.ok THEN Revert(s, g.err)
                ELSE Ok(g.st, m.ev \o g.ev \o
                        <<[name |-> "Bought", buyer |-> sender, ethIn |-> value,
                           tokensOut |-> tokensBought, platformFee |-> platformFee]>>)

\* Variant of buy without the hasGraduated guard.
buy_graduationNotChecked(s, sender, value) ==
    IF value < MIN_BUY THEN Revert(s, "Buy amount too small")
    ELSE
    LET s0 == [s EXCEPT !.ethBalance = @ + value]
        fees == _calculateFees(s0, value)
        ethForTokens == fees.netAmount
        platformFee == fees.platformFee
        price == getCurrentPrice(s0)
    IN  IF price = 0 THEN Revert(s, "Panic: division by zero")
        ELSE
        LET tokensBought == calculateBuyReturn(s0, ethForTokens) IN
        IF ~(tokensBought > 0) THEN Revert(s, "Insufficient ETH")
        ELSE
        LET s1 == [s0 EXCEPT !.platformFeesCollected = @ + platformFee]
            m == mint(s1, Curve, sender, tokensBought)
        IN  IF ~m.ok THEN Revert(s, m.err)
            ELSE
            LET s2 == [m.st EXCEPT !.totalEthInvested = @ + ethForTokens]
                g == IF _checkGraduation(s2) THEN _executeGraduation(s2) ELSE Ok(s2, <<>>)
            IN  IF ~g.ok THEN Revert(s, g.err)
                ELSE Ok(g.st, m.ev \o g.ev \o
                        <<[name |-> "Bought", buyer |-> sender, ethIn |-> value,
                           tokensOut |-> tokensBought, platformFee |-> platformFee]>>)

\* Variant of buy that logs the graduation ahead of the mint.
buy_graduationLoggedFirst(s, sender, value) ==
    IF value < MIN_BUY THEN Revert(s, "Buy amount too small")
    ELSE IF s.hasGraduated THEN Revert(s, "Curve has graduated")
    ELSE
    LET s0 == [s EXCEPT !.ethBalance = @ + value]
        fees == _calculateFees(s0, value)
        ethForTokens == fees.netAmount
        platformFee == fees.platformFee
        price == getCurrentPrice(s0)
    IN  IF price = 0 THEN Revert(s, "Panic: division by zero")
        ELSE
        LET tokensBought == calculateBuyReturn(s0, ethForTokens) IN
        IF ~(tokensBought > 0) THEN Revert(s, "Insufficient ETH")
        ELSE
        LET s1 == [s0 EXCEPT !.platformFeesCollected = @ + platformFee]
            m == mint(s1, Curve, sender, tokensBought)
        IN  IF ~m.ok THEN Revert(s, m.err)
            ELSE
            LET s2 == [m.st EXCEPT !.totalEthInvested = @ + ethForTokens]
                g == IF _checkGraduation(s2) THEN _executeGraduation(s2) ELSE Ok(s2, <<>>)
            IN  IF ~g.ok THEN Revert(s, g.err)
                ELSE Ok(g.st, g.ev \o m.ev \o
                        <<[name |-> "Bought", buyer |-> sender, ethIn |-> value,
                           tokensOut |-> tokensBought, platformFee |-> platformFee]>>)

\* BondingCurve.buy; msg.value is in the curve's balance while the call runs
buy(s, sender, value) ==
    IF value < MIN_BUY THEN Revert(s, "Buy amount too small")
    ELSE IF s.hasGraduated THEN Revert(s, "Curve has graduated")
    ELSE
    LET s0 == [s EXCEPT !.ethBalance = @ + value]
        fees == _calculateFees(s0, value)
        ethForTokens == fees.netAmount
        platformFee == fees.platformFee
        price == getCurrentPrice(s0)
    IN  IF price = 0 THEN Revert(s, "Panic: division by zero")
        ELSE
        LET tokensBought == calculateBuyReturn(s0, ethForTokens) IN
        IF ~(tokensBought > 0) THEN Revert(s, "Insufficient ETH")
        ELSE
        LET s1 == [s0 EXCEPT !.platformFeesCollected = @ + platformFee]
            m == mint(s1, Curve, sender, tokensBought)
        IN  IF ~m.ok THEN Revert(s, m.err)
            ELSE
            LET s2 == [m.st EXCEPT !.totalEthInvested = @ + ethForTokens]
                g == IF _checkGraduation(s2) THEN _executeGraduation(s2) ELSE Ok(s2, <<>>)
            IN  IF ~g.ok THEN Revert(s, g.err)
                ELSE Ok(g.st, m.ev \o g.ev \o
                        <<[name |-> "Bought", buyer |-> sender, ethIn |-> value,
                           tokensOut |-> tokensBought, platformFee |-> platformFee]>>)

\* An external call: the function, msg.sender, the argument (msg.value, an
\* amount, a new owner, or block.timestamp for the functions that read it)
\* and, for the functions that send ether, what its receiver does with it.
Call(op, sender, arg, accepts) ==
    [op |-> op, sender |-> sender, arg |-> arg, accepts |-> accepts]

\* What an account does when ether sent with .call{value: ..}("") arrives:
\* refuse it, take it, or first make calls of its own (directly or through
\* other contracts, hence under any msg.sender) into the curve, the token or
\* the factory, in the order given.
Accepting == [refuses |-> FALSE, calls |-> <<>>]
Rejecting == [refuses |-> TRUE, calls |-> <<>>]
Reenter(calls) == [refuses |-> FALSE, calls |-> calls]
ReenterBuy(c, v) == Reenter(<<Call("buy", c, v, TRUE)>>)
ReenterSell(c, a) == Reenter(<<Call("sell", c, a, Accepting)>>)

RECURSIVE call(_, _)
RECURSIVE run(_, _)

\* The outcome of a receiver's call `r` and of the calls `rest` it made next
Join(s, r, rest) ==
    IF ~rest.ok THEN Revert(s, rest.err) ELSE Ok(rest.st, r.ev \o rest.ev)

\* The receiver's calls `calls`, made once its call with outcome `r` is over
After(s, r, calls) ==
    IF ~r.ok THEN Revert(s, r.err) ELSE Join(s, r, run(r.st, calls))

\* The calls of a receiver, one after the other; the first that fails makes
\* the receiver fail.
run(s, calls) ==
    IF calls = <<>> THEN Ok(s, <<>>) ELSE After(s, call(s, Head(calls)), Tail(calls))

\* <address>.call{value: ..}(""): the receiver's code runs on the storage as
\* the caller has left it; a failure inside it makes the call fail.
receive(s, rcv) ==
    IF rcv.refuses THEN Revert(s, "rejected") ELSE run(s, rcv.calls)

\* Variant of sell that does not take the seller's tokens: it burns out of
\* what the curve already holds.
sell_tokensNotTaken(s, sender, tokenAmount, rcv) ==
    IF ~(tokenAmount > 0) THEN Revert(s, "Amount must be > 0")
    ELSE IF s.hasGraduated THEN Revert(s, "Curve has graduated")
    ELSE
    LET ethReturned == calculateSellReturn(s, tokenAmount)
        fees == _calculateFees(s, ethReturned)
        netEthReturned == fees.netAmount
        platformFee == fees.platformFee
    IN  IF ~(s.ethBalance >= netEthReturned) THEN Revert(s, "Insufficient ETH")
        ELSE
        LET s1 == [s EXCEPT !.platformFeesCollected = @ + platformFee]
            b == burn(s1, Curve, tokenAmount)
        IN  IF ~b.ok THEN Revert(s, b.err)
            ELSE
            LET s2 == [b.st EXCEPT !.totalEthInvested =
                          IF @ > netEthReturned THEN @ - netEthReturned ELSE 0]
                s3 == [s2 EXCEPT !.ethBalance = @ - netEthReturned]
                success == receive(s3, rcv)
            IN  IF ~success.ok THEN Revert(s, "ETH transfer failed")
                ELSE Ok(success.st,
                        b.ev \o success.ev \o
                        <<[name |-> "Sold", seller |-> sender, ethOut |-> netEthReturned,
                           tokensIn |-> tokenAmount, platformFee |-> platformFee]>>)

\* Variant of sell that ignores the result of the ether transfer.
sell_successNotChecked(s, sender, tokenAmount, rcv) ==
    IF ~(tokenAmount > 0) THEN Revert(s, "Amount must be > 0")
    ELSE IF s.hasGraduated THEN Revert(s, "Curve has graduated")
    ELSE
    LET t == transferFrom(s, Curve, sender, Curve, tokenAmount) IN
    IF ~t.ok THEN Revert(s, t.err)
    ELSE
    LET ethReturned == calculateSellReturn(t.st, tokenAmount)
        fees == _calculateFees(t.st, ethReturned)
        netEthReturned == fees.netAmount
        platformFee == fees.platformFee
    IN  IF ~(t.st.ethBalance >= netEthReturned) THEN Revert(s, "Insufficient ETH")
        ELSE
        LET s1 == [t.st EXCEPT !.platformFeesCollected = @ + platformFee]
            b == burn(s1, Curve, tokenAmount)
        IN  IF ~b.ok THEN Revert(s, b.err)
            ELSE
            LET s2 == [b.st EXCEPT !.totalEthInvested =
                          IF @ > netEthReturned THEN @ - netEthReturned ELSE 0]
                s3 == [s2 EXCEPT !.ethBalance = @ - netEthReturned]
                success == receive(s3, rcv)
            IN  Ok(IF success.ok THEN success.st ELSE s2,
                        b.ev \o success.ev \o
                        <<[name |-> "Sold", seller |-> sender, ethOut |-> netEthReturned,
                           tokensIn |-> tokenAmount, platformFee |-> platformFee]>>)

\* Variant of sell without the hasGraduated guard.
sell_graduationNotChecked(s, sender, tokenAmount, rcv) ==
    IF ~(tokenAmount > 0) THEN Revert(s, "Amount must be > 0")
    ELSE
    LET t == transferFrom(s, Curve, sender, Curve, tokenAmount) IN
    IF ~t.ok THEN Revert(s, t.err)
    ELSE
    LET ethReturned == calculateSellReturn(t.st, tokenAmount)
        fees == _calculateFees(t.st, ethReturned)
        netEthReturned == fees.netAmount
        platformFee == fees.platformFee
    IN  IF ~(t.st.ethBalance >= netEthReturned) THEN Revert(s, "Insufficient ETH")
        ELSE
        LET s1 == [t.st EXCEPT !.platformFeesCollected = @ + platformFee]
            b == burn(s1, Curve, tokenAmount)
        IN  IF ~b.ok THEN Revert(s, b.err)
            ELSE
            LET s2 == [b.st EXCEPT !.totalEthInvested =
                          IF @ > netEthReturned THEN @ - netEthReturned ELSE 0]
                s3 == [s2 EXCEPT !.ethBalance = @ - netEthReturned]
                success == receive(s3, rcv)
            IN  IF ~success.ok THEN Revert(s, "ETH transfer failed")
                ELSE Ok(success.st,
                        b.ev \o success.ev \o
                        <<[name |-> "Sold", seller |-> sender, ethOut |-> netEthReturned,
                           tokensIn |-> tokenAmount, platformFee |-> platformFee]>>)

\* Variant of sell that takes the gross return out of totalEthInvested.
sell_grossTakenOut(s, sender, tokenAmount, rcv) ==
    IF ~(tokenAmount > 0) THEN Revert(s, "Amount must be > 0")
    ELSE IF s.hasGraduated THEN Revert(s, "Curve has graduated")
    ELSE
    LET t == transferFrom(s, Curve, sender, Curve, tokenAmount) IN
    IF ~t.ok THEN Revert(s, t.err)
    ELSE
    LET ethReturned == calculateSellReturn(t.st, tokenAmount)
        fees == _calculateFees(t.st, ethReturned)
        netEthReturned == fees.netAmount
        platformFee == fees.platformFee
    IN  IF ~(t.st.ethBalance >= netEthReturned) THEN Revert(s, "Insufficient ETH")
        ELSE
        LET s1 == [t.st EXCEPT !.platformFeesCollected = @ + platformFee]
            b == burn(s1, Curve, tokenAmount)
        IN  IF ~b.ok THEN Revert(s, b.err)
            ELSE
            LET s2 == [b.st EXCEPT !.totalEthInvested =
                          IF @ > ethReturned THEN @ - ethReturned ELSE 0]
                s3 == [s2 EXCEPT !.ethBalance = @ - netEthReturned]
                success == receive(s3, rcv)
            IN  IF ~success.ok THEN Revert(s, "ETH transfer failed")
                ELSE Ok(success.st,
                        b.ev \o success.ev \o
                        <<[name |-> "Sold", seller |-> sender, ethOut |-> netEthReturned,
                           tokensIn |-> tokenAmount, platformFee |-> platformFee]>>)

\* BondingCurve.sell; `rcv`: what the seller's account does with the ether.
\* The curve pulls the tokens as the spender; a transferFrom that fails reverts
\* the sell with the token's error, and one that returns has returned true, so
\* the require around it never fails with its own message.
\* The ether is sent, and the seller's code runs, before Sold is emitted.
sell(s, sender, tokenAmount, rcv) ==
    IF ~(tokenAmount > 0) THEN Revert(s, "Amount must be > 0")
    ELSE IF s.hasGraduated THEN Revert(s, "Curve has graduated")
    ELSE
    LET t == transferFrom(s, Curve, sender, Curve, tokenAmount) IN
    IF ~t.ok THEN Revert(s, t.err)
    ELSE
    LET ethReturned == calculateSellReturn(t.st, tokenAmount)
        fees == _calculateFees(t.st, ethReturned)
        netEthReturned == fees.netAmount
        platformFee == fees.platformFee
    IN  IF ~(t.st.ethBalance >= netEthReturned) THEN Revert(s, "Insufficient ETH")
        ELSE
        LET s1 == [t.st EXCEPT !.platformFeesCollected = @ + platformFee]
            b == burn(s1, Curve, tokenAmount)
        IN  IF ~b.ok THEN Revert(s, b.err)
            ELSE
            LET s2 == [b.st EXCEPT !.totalEthInvested =
                          IF @ > netEthReturned THEN @ - netEthReturned ELSE 0]
                s3 == [s2 EXCEPT !.ethBalance = @ - netEthReturned]
                success == receive(s3, rcv)
            IN  IF ~success.ok THEN Revert(s, "ETH transfer failed")
                ELSE Ok(success.st,
                        b.ev \o success.ev \o
                        <<[name |-> "Sold", seller |-> sender, ethOut |-> netEthReturned,
                           tokensIn |-> tokenAmount, platformFee |-> platformFee]>>)

\* Variant of withdrawPlatformFees that pays out without clearing the amount.
withdrawPlatformFees_notCleared(s, sender, rcv) ==
    IF sender # Platform THEN Revert(s, "Unauthorized")
    ELSE
    LET amount == s.platformFeesCollected IN
    IF ~(amount > 0) THEN Revert(s, "No fees available")
    ELSE
    IF s.ethBalance < amount THEN Revert(s, "Transfer failed")
    ELSE
    LET success == receive([s EXCEPT !.ethBalance = @ - amount], rcv) IN
    IF ~success.ok THEN Revert(s, "Transfer failed")
    ELSE Ok(success.st, success.ev)

\* BondingCurve.withdrawPlatformFees; `rcv`: what the platform's account does
\* with the ether.  It runs after platformFeesCollected is cleared.
withdrawPlatformFees(s, sender, rcv) ==
    IF sender # Platform THEN Revert(s, "Unauthorized")
    ELSE
    LET amount == s.platformFeesCollected IN
    IF ~(amount > 0) THEN Revert(s, "No fees available")
    ELSE
    LET s1 == [s EXCEPT !.platformFeesCollected = 0] IN
    IF s1.ethBalance < amount THEN Revert(s, "Transfer failed")
    ELSE
    LET success == receive([s1 EXCEPT !.ethBalance = @ - amount], rcv) IN
    IF ~success.ok THEN Revert(s, "Transfer failed")
    ELSE Ok(success.st, success.ev)

\* BondingCurve.initialize (payable, no logic beyond its guards)
initialize(s, sender, value) ==
    IF sender # Deployer /\ sender # Factory THEN Revert(s, "UNAUTHORIZED")
    ELSE IF s.totalSupply # 0 THEN Revert(s, "Already initialized")
    ELSE Ok([s EXCEPT !.ethBalance = @ + value], <<>>)

\* An external call made to the curve, the token or the factory: the function
\* named runs on the storage as it is at that moment.
call(s, c) ==
    CASE c.op = "buy" -> buy(s, c.sender, c.arg)
      [] c.op = "sell" -> sell(s, c.sender, c.arg, c.accepts)
      [] c.op = "withdrawPlatformFees" -> withdrawPlatformFees(s, c.sender, c.accepts)
      [] c.op = "initialize" -> initialize(s, c.sender, c.arg)
      [] c.op = "approve" -> approve(s, c.sender, c.arg.spender, c.arg.amount)
      [] c.op = "transfer" -> transfer(s, c.sender, c.arg.to, c.arg.amount)
      [] c.op = "transferFrom" ->
             transferFrom(s, c.sender, c.arg.from, c.arg.to, c.arg.amount)
      [] c.op = "burn" -> burn(s, c.sender, c.arg)
      [] c.op = "mint" -> mint(s, c.sender, c.sender, c.arg)
      [] c.op = "transferOwnership" -> transferOwnership(s, c.sender, c.arg)
      [] c.op = "transferTokenOwnership" -> transferTokenOwnership(s, c.sender, c.arg)
      [] c.op = "claimVestedTokens" -> claimVestedTokens(s, c.sender, c.arg)
      [] c.op = "setMilestonesReached" -> setMilestonesReached(s, c.sender)
      [] c.op = "burnUnvestedTokens" -> burnUnvestedTokens(s, c.sender, c.arg)

\* ------------------------------------------------------------ transactions
CountOf(ev, n) == Cardinality({i \in 1..Len(ev) : ev[i].name = n})

CurveOps == {"buy", "sell", "withdrawPlatformFees", "initialize"}
\* The functions that send ether with .call and so run their receiver's code
CallOutOps == {"sell", "withdrawPlatformFees", "createToken"}

RECURSIVE CallsInAll(_)

\* The calls that the receiver of the ether of a call to `op` makes, each
\* followed by those made by the receiver of its own ether
Nested(op, accepts) ==
    IF op \in CallOutOps THEN CallsInAll(accepts.calls) ELSE <<>>
\* The calls of one transaction, in the order they start: the call itself, then
\* those its receiver makes, each with its own.
CallsIn(c) == <<c>> \o Nested(c.op, c.accepts)
CallsInAll(cs) ==
    IF cs = <<>> THEN <<>> ELSE CallsIn(Head(cs)) \o CallsInAll(Tail(cs))

\* A transaction of one call
Plain(c) == Nested(c.op, c.accepts) = <<>>

\* The calls among `cs` to the functions `ops`
Among(cs, ops) == IF cs = <<>> THEN <<>> ELSE SelectSeq(cs, LAMBDA c : c.op \in ops)
\* Some call of the transaction `c` is to one of the functions `ops`
Ran(c, ops) == c.op \in ops \/ Among(Nested(c.op, c.accepts), ops) # <<>>
\* The calls among `cs` to the curve, and those to the token and to the
\* factory about it
CurveCallsIn(cs) == Len(Among(cs, CurveOps))
TokenCallsIn(cs) == Len(cs) - CurveCallsIn(cs)

RECURSIVE NetIn(_)
\* sum of netCollateral over the buys among `cs`
NetIn(cs) ==
    IF cs = <<>> THEN 0
    ELSE (IF Head(cs).op = "buy"
          THEN Head(cs).arg - (Head(cs).arg * 75) \div 10000 ELSE 0) + NetIn(Tail(cs))

RECURSIVE VestedIn(_)
\* sum of the amounts of the DeployerTokensVested events among `ev`
VestedIn(ev) ==
    IF ev = <<>> THEN 0
    ELSE (IF Head(ev).name = "DeployerTokensVested" THEN Head(ev).amount ELSE 0)
         + VestedIn(Tail(ev))

\* Calls are left within the bounds
CurveBudget == curveCalls < MaxCurveCalls
TokenBudget == tokenCalls < MaxTokenCalls

\* One transaction: its effects are committed when it succeeds.  A call that
\* reverts leaves the storage as it was and no event: it is no step at all.
Commit(op, sender, arg, accepts, t, r) ==
    LET nested == Nested(op, accepts)
        curve == IF op \in CurveOps THEN 1 ELSE 0
    IN
    /\ curveCalls + curve <= MaxCurveCalls
    /\ tokenCalls + (1 - curve) <= MaxTokenCalls
    /\ r.ok
    /\ curveCalls + curve + CurveCallsIn(nested) <= MaxCurveCalls
    /\ tokenCalls + (1 - curve) + TokenCallsIn(nested) <= MaxTokenCalls
    /\ owner' = r.st.owner
    /\ balanceOf' = r.st.balanceOf
    /\ allowance' = r.st.allowance
    /\ totalSupply' = r.st.totalSupply
    /\ vestedAmount' = r.st.vestedAmount
    /\ milestonesReached' = r.st.milestonesReached
    /\ totalEthInvested' = r.st.totalEthInvested
    /\ hasGraduated' = r.st.hasGraduated
    /\ platformFeesCollected' = r.st.platformFeesCollected
    /\ liquidityAdded' = r.st.liquidityAdded
    /\ ethBalance' = r.st.ethBalance
    /\ lastCall' = Call(op, sender, arg, accepts)
    /\ events' = r.ev
    /\ now' = t
    /\ curveCalls' = curveCalls + curve + CurveCallsIn(nested)
    /\ tokenCalls' = tokenCalls + (1 - curve) + TokenCallsIn(nested)
    /\ nGraduated' = nGraduated + CountOf(r.ev, "Graduated")
    /\ vestedMinted' = IF op = "claimVestedTokens"
                       THEN vestedMinted + (r.st.balanceOf[Deployer] - balanceOf[Deployer])
                       ELSE IF nested = <<>> THEN vestedMinted
                       ELSE vestedMinted + VestedIn(r.ev)
    /\ sold' = (sold \/ op = "sell" \/ Among(nested, {"sell"}) # <<>>)
    /\ deployerAlone' = (/\ deployerAlone
                         /\ sender = Deployer
                         /\ \A i \in 1..Len(nested) : nested[i].sender = Deployer)
    /\ burnReported' = (\/ burnReported
                        \/ op = "burnUnvestedTokens"
                        \/ Among(nested, {"burnUnvestedTokens"}) # <<>>)
    /\ UNCHANGED <<creationValue, platformPaid>>
    /\ netSum' = netSum + (IF op = "buy" THEN arg - (arg * 75) \div 10000 ELSE 0)
                        + NetIn(nested)

\* The ether a seller has just received: what an immediate buy-back spends.
LastProceeds ==
    IF lastCall.op = "sell"
    THEN {events[Len(events)].ethOut}
    ELSE {}

\* tokenAmount of a sell: nothing, nine tenths of the holding, all of it, one more
SellAmts(c) == {0, (balanceOf[c] * 9) \div 10, balanceOf[c], balanceOf[c] + 1}
\* msg.value of a buy made from the seller's account while it is being paid:
\* after a sale of the whole supply it leaves the curve below the graduation
\* threshold, after a smaller sale it takes the curve over it
ReenterBuyAmts == {870}
\* what the seller's account does with the ether of a sale of `a` tokens:
\* take it, refuse it, buy, or sell the rest of its holding
Receives(c, a) ==
    {Accepting, Rejecting, ReenterSell(c, balanceOf[c] - a)}
        \cup {ReenterBuy(c, v) : v \in ReenterBuyAmts}
\* what the platform's account does with the fees it withdraws: take them,
\* refuse them, or have a buyer's contract buy
WithdrawReceives == {Accepting, Rejecting, ReenterBuy(Alice, 500)}
\* what the platform's account does with the creation fee: take it, have the
\* deployer's contract hand the new token to the new curve, or that and then
\* have a buyer's contract buy
CreateReceives ==
    {Accepting,
     Reenter(<<Call("transferTokenOwnership", Deployer, Curve, TRUE)>>),
     Reenter(<<Call("transferTokenOwnership", Deployer, Curve, TRUE),
               Call("buy", Alice, 500, TRUE)>>)}
\* the accounts that a holder approves or sends tokens to: the curve, the other
\* users and address(0)
Others(c) == (Users \cup {Curve, Zero}) \ {c}
BurnAmts(c) == {balanceOf[c] \div 2, balanceOf[c] - 1} \ {0 - 1}
\* amount of a transfer out of the holdings of `c`: to the curve a fixed amount
\* or all of them, to another user a fixed amount
TransferAmts(c, to) == IF to = Curve THEN {1000, balanceOf[c]} ELSE {1000}
\* amount of a direct mint: more than the whole deployer allocation
MintAmts == {DEPLOYER_ALLOCATION + 1}
\* block.timestamp of a call that reads it: never before the last one read
Times == now..MaxTime
InitAmts == {100}

\* TokenFactory.createToken: a new ERC20Token owned by the factory, with the
\* caller as deployer, and a new BondingCurve; the whole msg.value goes to the
\* platform.  `rcv`: what the platform's account does with the ether; it runs
\* with the token and the curve deployed and both events emitted.
createToken(sender, value, rcv) ==
    LET fresh == [owner |-> Factory,
                  balanceOf |-> [a \in Accounts |-> 0],
                  allowance |-> [a \in Accounts |-> [b \in Accounts |-> 0]],
                  totalSupply |-> 0, vestedAmount |-> 0,
                  milestonesReached |-> FALSE,
                  totalEthInvested |-> 0, hasGraduated |-> FALSE,
                  platformFeesCollected |-> 0,
                  liquidityAdded |-> FALSE, ethBalance |-> 0]
        success == receive(fresh, rcv)
    IN  IF ~(value >= TOKEN_CREATION_FEE)
        THEN [ok |-> FALSE, err |-> "Insufficient fee", st |-> fresh, paid |-> 0, ev |-> <<>>]
        ELSE IF ~success.ok
        THEN [ok |-> FALSE, err |-> "Fee transfer failed", st |-> fresh, paid |-> 0, ev |-> <<>>]
        ELSE [ok |-> TRUE, err |-> "", st |-> success.st, paid |-> value,
              ev |-> <<[name |-> "TokenCreated", deployer |-> sender],
                       [name |-> "BondingCurveCreated"]>> \o success.ev]

\* msg.value of createToken: short of the fee, the fee alone, the fee and 0.05 ether
CreateAmts == {TOKEN_CREATION_FEE - 1, TOKEN_CREATION_FEE, 53}

\* The state right after a successful createToken{value: v} by the deployer,
\* the platform's account doing `rcv` with the ether
CreateInit(v, rcv) ==
    LET r == createToken(Deployer, v, rcv)
        nested == Nested("createToken", rcv)
    IN
    /\ r.ok
    /\ owner = r.st.owner
    /\ balanceOf = r.st.balanceOf
    /\ allowance = r.st.allowance
    /\ totalSupply = r.st.totalSupply
    /\ vestedAmount = r.st.vestedAmount
    /\ milestonesReached = r.st.milestonesReached
    /\ now = 0
    /\ totalEthInvested = r.st.totalEthInvested
    /\ hasGraduated = r.st.hasGraduated
    /\ platformFeesCollected = r.st.platformFeesCollected
    /\ liquidityAdded = r.st.liquidityAdded
    /\ ethBalance = r.st.ethBalance
    /\ lastCall = Call("createToken", Deployer, v, rcv)
    /\ events = r.ev
    /\ netSum = NetIn(nested)
    /\ sold = (Among(nested, {"sell"}) # <<>>)
    /\ nGraduated = CountOf(r.ev, "Graduated")
    /\ vestedMinted = VestedIn(r.ev)
    /\ deployerAlone = \A i \in 1..Len(nested) : nested[i].sender = Deployer
    /\ burnReported = (Among(nested, {"burnUnvestedTokens"}) # <<>>)
    /\ creationValue = v
    /\ platformPaid = r.paid
    /\ curveCalls = CurveCallsIn(nested)
    /\ tokenCalls = TokenCallsIn(nested)

Init == \E rcv \in CreateReceives : CreateInit(53, rcv)

\* Every accepted msg.value of createToken
InitCreate == \E v \in CreateAmts : \E rcv \in CreateReceives : CreateInit(v, rcv)

Buy ==
    /\ CurveBudget
    /\ \E c \in Buyers : \E v \in BuyAmts \cup LastProceeds :
           Commit("buy", c, v, TRUE, now, buy(Storage, c, v))

Sell ==
    /\ CurveBudget
    /\ \E c \in Users : \E a \in SellAmts(c) : \E rcv \in Receives(c, a) :
           Commit("sell", c, a, rcv, now, sell(Storage, c, a, rcv))

WithdrawPlatformFees ==
    /\ CurveBudget
    /\ \E c \in Callers : \E rcv \in WithdrawReceives :
           Commit("withdrawPlatformFees", c, 0, rcv, now, withdrawPlatformFees(Storage, c, rcv))

Initialize ==
    /\ CurveBudget
    /\ \E c \in Callers : \E v \in InitAmts :
           Commit("initialize", c, v, TRUE, now, initialize(Storage, c, v))

Approve ==
    /\ TokenBudget
    /\ \E c \in Users : \E sp \in Others(c) : \E a \in ApproveAmts(sp) :
           Commit("approve", c, [spender |-> sp, amount |-> a], TRUE, now,
                  approve(Storage, c, sp, a))

Transfer ==
    /\ TokenBudget
    /\ \E c \in Users : \E to \in Others(c) : \E a \in TransferAmts(c, to) :
           Commit("transfer", c, [to |-> to, amount |-> a], TRUE, now,
                  transfer(Storage, c, to, a))

TransferFrom ==
    /\ TokenBudget
    /\ \E c \in Users : \E from \in Users \ {c} : \E to \in {c, Zero} :
       \E a \in TransferAmts(from, to) :
           Commit("transferFrom", c, [from |-> from, to |-> to, amount |-> a], TRUE, now,
                  transferFrom(Storage, c, from, to, a))

Burn ==
    /\ TokenBudget
    /\ \E c \in Users : \E a \in BurnAmts(c) :
           Commit("burn", c, a, TRUE, now, burn(Storage, c, a))

Mint ==
    /\ TokenBudget
    /\ \E c \in Callers : \E a \in MintAmts :
           Commit("mint", c, a, TRUE, now, mint(Storage, c, c, a))

TransferOwnership ==
    /\ TokenBudget
    /\ \E c \in Callers : \E n \in {Curve, Deployer, Zero} :
           Commit("transferOwnership", c, n, TRUE, now, transferOwnership(Storage, c, n))

TransferTokenOwnership ==
    /\ TokenBudget
    /\ \E c \in Callers : \E n \in {Curve, Deployer, Alice, Zero} :
           Commit("transferTokenOwnership", c, n, TRUE, now, transferTokenOwnership(Storage, c, n))

ClaimVestedTokens ==
    /\ TokenBudget
    /\ \E c \in Callers : \E t \in Times :
           Commit("claimVestedTokens", c, t, TRUE, t, claimVestedTokens(Storage, c, t))

SetMilestonesReached ==
    /\ TokenBudget
    /\ \E c \in Callers :
           Commit("setMilestonesReached", c, 0, TRUE, now, setMilestonesReached(Storage, c))

BurnUnvestedTokens ==
    /\ TokenBudget
    /\ \E c \in Callers : \E t \in Times :
           Commit("burnUnvestedTokens", c, t, TRUE, t, burnUnvestedTokens(Storage, c, t))

Next ==
    \/ Buy
    \/ Sell
    \/ WithdrawPlatformFees
    \/ Initialize
    \/ Approve
    \/ Transfer
    \/ TransferFrom
    \/ Burn
    \/ Mint
    \/ TransferOwnership
    \/ TransferTokenOwnership
    \/ ClaimVestedTokens
    \/ SetMilestonesReached
    \/ BurnUnvestedTokens

Spec == Init /\ [][Next]_vars

SpecCreate == InitCreate /\ [][Next]_vars

\* ------------------------------------------------------------------ claims
\* floor(a * 75 / 10000) and a minus it, written out from the fee policy
FeeOf(a) == (a * 75) \div 10000
NetOf(a) == a - FeeOf(a)

\* The last event of a call: Bought for a buy, Sold for a sell
LastEvent(ev) == ev[Len(ev)]

\* The price the curve quotes in the current state, written out from the
\* pricing rule: the base price at zero supply, else invested * SCALE / supply.
PriceNow ==
    IF totalSupply = 0 THEN BASE_PRICE ELSE (totalEthInvested * SCALE) \div totalSupply

GrossReturn(t) == (t * PriceNow) \div SCALE

\* The Bought record among a transaction's events
BoughtIn(ev) == ev[CHOOSE i \in 1..Len(ev) : ev[i].name = "Bought"]

\* A call that was rejected with `reason`: nothing changed, no event.
Rejected(r, reason) == ~r.ok /\ r.err = reason /\ r.st = Storage /\ r.ev = <<>>

\* C1: as long as no sell has happened, totalEthInvested is exactly the sum,
\* over the successful buys so far, of collateralIn - floor(collateralIn*75/10000).
C1_InvestedIsSumOfNet == ~sold => totalEthInvested = netSum

\* C1 witness: two buys whose fees were truncated, and no sell
C1_Witness ==
    /\ ~sold
    /\ lastCall.op = "buy"
    /\ totalEthInvested = NetOf(500) + NetOf(500)
    /\ platformFeesCollected = 6

\* A buy that every check before the graduation step accepts and that brings
\* totalEthInvested to GRADUATION_THRESHOLD or beyond.
CrossingBuy(v) ==
    /\ v >= MIN_BUY
    /\ ~hasGraduated
    /\ owner = Curve
    /\ PriceNow > 0
    /\ (NetOf(v) * SCALE) \div PriceNow > 0
    /\ totalEthInvested + NetOf(v) >= GRADUATION_THRESHOLD

\* C2: graduated is false while totalEthInvested is below the threshold, and
\* the buy that brings it to the threshold or beyond completes with
\* graduated = true and exactly one Graduated event.
C2_GraduatesAtThreshold ==
    /\ (totalEthInvested < GRADUATION_THRESHOLD => ~hasGraduated)
    /\ \A c \in Buyers : \A v \in BuyAmts :
         CrossingBuy(v) =>
            LET r == buy(Storage, c, v) IN
            r.ok /\ r.st.hasGraduated /\ CountOf(r.ev, "Graduated") = 1

\* C3: over any run the Graduated event is emitted at most once, and once the
\* curve has graduated no buy runs the graduation again.
C3_GraduationAtMostOnce ==
    /\ nGraduated <= 1
    /\ hasGraduated =>
         /\ nGraduated = 1
         /\ totalEthInvested >= GRADUATION_THRESHOLD
         /\ \A c \in Buyers : \A v \in BuyAmts :
              CountOf(buy(Storage, c, v).ev, "Graduated") = 0

\* C3 witness: the curve has graduated and another call was made afterwards
C3_Witness ==
    /\ hasGraduated /\ nGraduated = 1
    /\ CountOf(events, "Graduated") = 0
    /\ totalEthInvested >= GRADUATION_THRESHOLD

\* C4: a successful sell of t tokens followed at once by a buy, by the same
\* holder, with exactly the ether the sell paid out, never mints more than t.
C4_RoundTripLosesValue ==
    [][(/\ lastCall.op = "sell"
        /\ Plain(lastCall)
        /\ lastCall'.op = "buy"
        /\ lastCall'.sender = lastCall.sender
        /\ lastCall'.arg = LastEvent(events).ethOut)
       => LastEvent(events').tokensOut <= lastCall.arg]_vars

\* C5: before graduation the fee is floor(a * 75 / 10000) and the net is a
\* minus the fee, where a is the ether sent on a buy and the gross return
\* tokenAmount * price / SCALE on a sell.
C5_ExactFeeSplit ==
    [][/\ (lastCall'.op = "buy"
            => /\ platformFeesCollected' = platformFeesCollected + FeeOf(lastCall'.arg)
               /\ totalEthInvested' = totalEthInvested + NetOf(lastCall'.arg)
               /\ ethBalance' = ethBalance + lastCall'.arg
               /\ LastEvent(events').platformFee = FeeOf(lastCall'.arg))
       /\ (lastCall'.op = "sell" /\ Plain(lastCall')
            => /\ platformFeesCollected'
                    = platformFeesCollected + FeeOf(GrossReturn(lastCall'.arg))
               /\ ethBalance' = ethBalance - NetOf(GrossReturn(lastCall'.arg))
               /\ LastEvent(events').ethOut = NetOf(GrossReturn(lastCall'.arg))
               /\ LastEvent(events').platformFee = FeeOf(GrossReturn(lastCall'.arg))
               /\ LastEvent(events').ethOut + LastEvent(events').platformFee
                    = GrossReturn(lastCall'.arg))]_vars

\* C5 witness: a sell whose fee was truncated to a positive amount
C5_Witness ==
    /\ lastCall.op = "sell"
    /\ LastEvent(events).platformFee > 0
    /\ ((LastEvent(events).ethOut + LastEvent(events).platformFee) * 75) % 10000 # 0

\* What a holder can have the curve pull: held and approved.
ExceedsTransferable(c, a) ==
    \/ a > balanceOf[c]
    \/ allowance[c][Curve] # Unlimited /\ a > allowance[c][Curve]

\* The token's error when the curve cannot pull `a` tokens from `c`: a short
\* allowance is reported before a short balance.
TransferFailure(c, a) ==
    IF allowance[c][Curve] # Unlimited /\ a > allowance[c][Curve]
    THEN "ERC20InsufficientAllowance"
    ELSE "ERC20InsufficientBalance"

\* C6: a sell that passes the amount and graduation checks and asks for more
\* than the caller holds and has approved to the curve fails, with the error of
\* the token transfer that the curve attempts, and changes nothing: storage
\* (collateral, fees, supply, every balance and allowance) is as before the
\* call and no event is emitted, whatever the seller's account would have done
\* with the ether.
C6_SellBeyondBalanceRejected ==
    [](\A c \in Users : \A a \in SellAmts(c) \cup {allowance[c][Curve] + 1} :
        (a > 0 /\ ~hasGraduated /\ ExceedsTransferable(c, a))
        => \A rcv \in Receives(c, a) :
               Rejected(sell(Storage, c, a, rcv), TransferFailure(c, a)))

\* C6 witness: a holder who has approved the curve and could sell the whole
\* balance asks for one token more, and an account that has approved nothing
\* asks to sell
C6_Witness ==
    /\ ~hasGraduated
    /\ balanceOf[Alice] > 0
    /\ allowance[Alice][Curve] = Unlimited
    /\ sell(Storage, Alice, balanceOf[Alice], Accepting).ok
    /\ sell(Storage, Alice, balanceOf[Alice] + 1, Accepting).err = "ERC20InsufficientBalance"
    /\ allowance[Deployer][Curve] = 0
    /\ sell(Storage, Deployer, 1, Accepting).err = "ERC20InsufficientAllowance"

\* C7: a sell or a fee withdrawal whose receiver rejects the ether (by
\* refusing it, or because a call it makes back into the curve fails) fails as
\* a whole: fees, invested collateral, supply, balances and the curve's ether
\* are as before the call, and no event is left.
C7_RejectedTransferRollsBack ==
    [](/\ \A c \in Users : \A a \in SellAmts(c) :
            sell(Storage, c, a, Accepting).ok =>
               /\ sell(Storage, c, a, Rejecting) = Revert(Storage, "ETH transfer failed")
               /\ \A rcv \in Receives(c, a) \ {Accepting, Rejecting} :
                    LET r == sell(Storage, c, a, rcv) IN
                    ~r.ok => r = Revert(Storage, "ETH transfer failed")
       /\ \A c \in Callers :
            withdrawPlatformFees(Storage, c, Accepting).ok =>
               /\ withdrawPlatformFees(Storage, c, Rejecting) = Revert(Storage, "Transfer failed")
               /\ \A rcv \in WithdrawReceives \ {Accepting, Rejecting} :
                    LET r == withdrawPlatformFees(Storage, c, rcv) IN
                    ~r.ok => r = Revert(Storage, "Transfer failed"))

\* C7 witness: a sale and a withdrawal that go through when the receiver takes
\* the ether and are rejected when it does not
C7_Witness ==
    /\ sell(Storage, Alice, balanceOf[Alice], Accepting).ok
    /\ sell(Storage, Alice, balanceOf[Alice], Rejecting).err = "ETH transfer failed"
    /\ withdrawPlatformFees(Storage, Platform, Accepting).ok
    /\ withdrawPlatformFees(Storage, Platform, Rejecting).err = "Transfer failed"

\* A buy that passes the amount and graduation checks and whose computed
\* output floor(net * SCALE / price) is 0.
ZeroOutputBuy(v) ==
    /\ v >= MIN_BUY
    /\ ~hasGraduated
    /\ PriceNow > 0
    /\ (NetOf(v) * SCALE) \div PriceNow = 0

\* C8: buy rejects, in the order of its checks, an amount below MIN_BUY, a
\* graduated curve and a computed output of 0; a rejected buy changes nothing
\* and leaves no event.
C8_BuyRejections ==
    [](\A c \in Buyers : \A v \in BuyAmts \cup LastProceeds :
        LET r == buy(Storage, c, v) IN
        /\ (v < MIN_BUY => Rejected(r, "Buy amount too small"))
        /\ (v >= MIN_BUY /\ hasGraduated => Rejected(r, "Curve has graduated"))
        /\ (ZeroOutputBuy(v) => Rejected(r, "Insufficient ETH"))
        /\ (~r.ok => r.st = Storage /\ r.ev = <<>>))

\* C8 witness: the curve can mint, and a buy of the minimum would mint nothing
C8_Witness ==
    /\ owner = Curve
    /\ ZeroOutputBuy(MIN_BUY)
    /\ buy(Storage, Alice, MIN_BUY).err = "Insufficient ETH"
    /\ buy(Storage, Alice, MIN_BUY - 1).err = "Buy amount too small"

\* C9 as stated: the price of a successful buy is BASE_PRICE when
\* totalEthInvested is 0 and invested * SCALE / supply otherwise.
C9_PriceByCollateral ==
    [][lastCall'.op = "buy" =>
        /\ (totalEthInvested = 0
              => LastEvent(events').tokensOut
                   = (NetOf(lastCall'.arg) * SCALE) \div BASE_PRICE)
        /\ (totalEthInvested # 0
              => /\ totalSupply # 0
                 /\ LastEvent(events').tokensOut
                      = (NetOf(lastCall'.arg) * SCALE)
                          \div ((totalEthInvested * SCALE) \div totalSupply))]_vars

\* C9 amended: a successful buy mints floor(net * SCALE / price), where the
\* price is BASE_PRICE when the total supply is 0 and
\* floor(invested * SCALE / supply) otherwise.
C9_PriceBySupply ==
    [][lastCall'.op = "buy" =>
        /\ LastEvent(events').tokensOut = (NetOf(lastCall'.arg) * SCALE) \div PriceNow
        /\ balanceOf'[lastCall'.sender]
             = balanceOf[lastCall'.sender] + LastEvent(events').tokensOut
        /\ (totalSupply = 0
              => LastEvent(events').tokensOut
                   = (NetOf(lastCall'.arg) * SCALE) \div BASE_PRICE)]_vars

\* C9 witness: a buy succeeded at zero supply while invested collateral was left
C9_Witness ==
    /\ lastCall.op = "buy"
    /\ totalSupply = LastEvent(events).tokensOut
    /\ totalEthInvested > NetOf(lastCall.arg)

\* Every buy and every sell is rejected, with the graduation error when the
\* amount itself is valid.
TradingClosed ==
    /\ \A c \in Buyers : \A v \in BuyAmts :
         LET r == buy(Storage, c, v) IN
         ~r.ok /\ (v >= MIN_BUY => r.err = "Curve has graduated")
    /\ \A c \in Users : \A a \in SellAmts(c) : \A rcv \in Receives(c, a) :
         LET r == sell(Storage, c, a, rcv) IN
         ~r.ok /\ (a > 0 => r.err = "Curve has graduated")

\* C10: once hasGraduated is true it stays true, platformFeesCollected never
\* grows again, and every buy and sell fails with the graduation error.
C10_GraduatedLatch ==
    /\ [](hasGraduated => TradingClosed)
    /\ [][hasGraduated =>
            /\ hasGraduated'
            /\ platformFeesCollected' <= platformFeesCollected
            /\ ~Ran(lastCall', {"buy", "sell"})]_vars

\* C10 witness: after graduation a holder who has approved the curve still
\* holds tokens, and a call was made after the graduating buy
C10_Witness ==
    /\ hasGraduated
    /\ balanceOf[Alice] > 0
    /\ allowance[Alice][Curve] = Unlimited
    /\ lastCall.op # "buy"

RECURSIVE FeesIn(_)
\* The fees that the buys and sells logged in `ev` accrued
FeesIn(ev) ==
    IF ev = <<>> THEN 0
    ELSE (IF Head(ev).name \in {"Bought", "Sold"} THEN Head(ev).platformFee ELSE 0)
         + FeesIn(Tail(ev))

RECURSIVE EtherIn(_)
\* The ether that the buys logged in `ev` brought into the curve, less what
\* the sells logged in it paid out
EtherIn(ev) ==
    IF ev = <<>> THEN 0
    ELSE (IF Head(ev).name = "Bought" THEN Head(ev).ethIn
          ELSE IF Head(ev).name = "Sold" THEN 0 - Head(ev).ethOut ELSE 0)
         + EtherIn(Tail(ev))

\* C11: platformFeesCollected goes down only by a successful
\* withdrawPlatformFees of the platform, which sets it to 0 and sends exactly
\* the previous amount out of the curve; any other caller is rejected as
\* unauthorized, and the platform itself when nothing is collected.  The
\* accrual is cleared before the platform is paid: what the transaction leaves
\* is 0 when the platform only takes the ether, and otherwise exactly the fees
\* of the trades made from the platform's account while it was being paid.
C11_FeesLeaveOnlyByWithdrawal ==
    /\ [](/\ \A c \in Callers \ {Platform} : \A rcv \in WithdrawReceives :
               Rejected(withdrawPlatformFees(Storage, c, rcv), "Unauthorized")
          /\ \A rcv \in WithdrawReceives :
               platformFeesCollected = 0
               => Rejected(withdrawPlatformFees(Storage, Platform, rcv),
                           "No fees available"))
    /\ [][/\ (lastCall'.op = "withdrawPlatformFees"
               => /\ lastCall'.sender = Platform
                  /\ platformFeesCollected > 0
                  /\ platformFeesCollected' = FeesIn(events')
                  /\ ethBalance' = ethBalance - platformFeesCollected + EtherIn(events')
                  /\ (Plain(lastCall')
                        => /\ platformFeesCollected' = 0
                           /\ ethBalance' = ethBalance - platformFeesCollected
                           /\ events' = <<>>))
          /\ (platformFeesCollected' < platformFeesCollected
               => Ran(lastCall', {"withdrawPlatformFees"}))]_vars

\* C11 witness: the platform has withdrawn the fees of a buy and a sell
C11_Witness ==
    /\ lastCall.op = "withdrawPlatformFees"
    /\ lastCall.sender = Platform
    /\ sold
    /\ platformFeesCollected = 0
    /\ ethBalance > 0

\* The platform has withdrawn the fees of a buy while a buyer's contract,
\* called from the platform's account as it was paid, bought: the accrual was
\* cleared and then took the fee of that buy
C11_WithdrawalWithBuy ==
    /\ lastCall.op = "withdrawPlatformFees"
    /\ ~Plain(lastCall)
    /\ CountOf(events, "Bought") = 1
    /\ platformFeesCollected = BoughtIn(events).platformFee
    /\ platformFeesCollected > 0

\* C12: totalEthInvested goes down only on a sell and never underflows: a
\* successful sell leaves totalEthInvested - netReturn when netReturn is
\* smaller and 0 otherwise; no other call lowers it.
C12_InvestedFlooredAtZero ==
    [][/\ (lastCall'.op = "sell" /\ Plain(lastCall')
            => totalEthInvested'
                 = IF NetOf(GrossReturn(lastCall'.arg)) < totalEthInvested
                   THEN totalEthInvested - NetOf(GrossReturn(lastCall'.arg))
                   ELSE 0)
       /\ (totalEthInvested' < totalEthInvested => Ran(lastCall', {"sell"}))
       /\ totalEthInvested' >= 0]_vars

\* C12 witness: a sell took a positive net return out and left 0 invested
C12_Witness ==
    /\ lastCall.op = "sell"
    /\ LastEvent(events).ethOut > 0
    /\ totalEthInvested = 0

\* The timestamps at which the vesting formula is evaluated, from vestingStartTime
VestingTimes == 0..MaxTime

\* C13 as stated: for the milestonesReached of the current state the vesting
\* formula is non-decreasing in the timestamp, across the end of the vesting
\* window too, and never above DEPLOYER_ALLOCATION.
C13_VestingMonotonic ==
    \A t1 \in VestingTimes : \A t2 \in VestingTimes :
        /\ (t1 <= t2 => calculateVestedAmount(Storage, t1) <= calculateVestedAmount(Storage, t2))
        /\ calculateVestedAmount(Storage, t1) <= DEPLOYER_ALLOCATION

\* C13 amended: the vesting formula is never above DEPLOYER_ALLOCATION; it is
\* non-decreasing inside the vesting window, and across its end when
\* milestonesReached is true; when milestonesReached is false it is 0 from the
\* end of the window on, below what it was inside the window.
C13_VestingMonotonicUpToGate ==
    LET vested == [t \in VestingTimes |-> calculateVestedAmount(Storage, t)] IN
    \A t1 \in VestingTimes : \A t2 \in VestingTimes :
        /\ vested[t1] <= DEPLOYER_ALLOCATION
        /\ vested[t1] >= 0
        /\ ((t1 <= t2 /\ (milestonesReached \/ t2 < VESTING_DURATION))
              => vested[t1] <= vested[t2])
        /\ ((~milestonesReached /\ t2 >= VESTING_DURATION) => vested[t2] = 0)
        /\ ((milestonesReached /\ t2 >= VESTING_DURATION)
              => vested[t2] = DEPLOYER_ALLOCATION)

\* C13 witness: the deployer claimed inside the window, the milestones were
\* then reached, and the formula at the end of the window is above both what
\* was claimed and what the window's last timestamp gives
C13_Witness ==
    /\ milestonesReached
    /\ vestedAmount > 0
    /\ vestedAmount = calculateVestedAmount(Storage, now)
    /\ now < VESTING_DURATION
    /\ calculateVestedAmount(Storage, VESTING_DURATION - 1)
         < calculateVestedAmount(Storage, VESTING_DURATION)
    /\ calculateVestedAmount(Storage, VESTING_DURATION) = DEPLOYER_ALLOCATION

\* C14: in every reachable state vestedAmount is at most DEPLOYER_ALLOCATION and
\* equals the tokens that claimVestedTokens has minted to the deployer so far,
\* and no call ever lowers vestedAmount.
C14_VestedBoundedMonotonic ==
    /\ [](/\ vestedAmount >= 0
          /\ vestedAmount <= DEPLOYER_ALLOCATION
          /\ vestedMinted = vestedAmount)
    /\ [][vestedAmount' >= vestedAmount]_vars

\* C14 witness: with the milestones reached, a claim after the window has
\* brought vestedAmount to the whole allocation
C14_Witness ==
    /\ lastCall.op = "claimVestedTokens"
    /\ milestonesReached
    /\ vestedAmount = DEPLOYER_ALLOCATION
    /\ vestedMinted = DEPLOYER_ALLOCATION
    /\ balanceOf[Deployer] = DEPLOYER_ALLOCATION

\* Half of the vesting window, from vestingStartTime
HalfWay == VESTING_DURATION \div 2

\* C15: the first claim at half of the vesting window mints exactly
\* floor(DEPLOYER_ALLOCATION / 2) to the deployer, and a claim that follows a
\* claim at the same timestamp succeeds, mints nothing, changes no storage and
\* emits no event.
C15_HalfWayClaimThenNoOp ==
    [][lastCall'.op = "claimVestedTokens" =>
        /\ ((lastCall'.arg = HalfWay /\ vestedAmount = 0)
              => /\ balanceOf'[Deployer] = balanceOf[Deployer] + DEPLOYER_ALLOCATION \div 2
                 /\ totalSupply' = totalSupply + DEPLOYER_ALLOCATION \div 2
                 /\ vestedAmount' = DEPLOYER_ALLOCATION \div 2
                 /\ events' = <<[name |-> "DeployerTokensVested",
                                 amount |-> DEPLOYER_ALLOCATION \div 2]>>)
        /\ ((lastCall.op = "claimVestedTokens" /\ lastCall'.arg = lastCall.arg)
              => /\ Storage' = Storage
                 /\ vestedMinted' = vestedMinted
                 /\ events' = <<>>)]_vars

\* C15 witness: a second claim at half of the window came after the first
C15_Witness ==
    /\ lastCall.op = "claimVestedTokens"
    /\ lastCall.arg = HalfWay
    /\ tokenCalls = 2
    /\ events = <<>>
    /\ vestedAmount = DEPLOYER_ALLOCATION \div 2
    /\ balanceOf[Deployer] = DEPLOYER_ALLOCATION \div 2
    /\ DEPLOYER_ALLOCATION % 2 = 1

\* C16: from the end of the vesting window on, a claim with milestonesReached
\* false succeeds, mints nothing and leaves vestedAmount (and all storage) as
\* it was, whatever was vested before; with milestonesReached true it mints
\* exactly DEPLOYER_ALLOCATION - vestedAmount and sets vestedAmount to
\* DEPLOYER_ALLOCATION.
C16_MilestoneGate ==
    /\ [](\A t \in Times :
            t >= VESTING_DURATION =>
              LET r == claimVestedTokens(Storage, Deployer, t) IN
              /\ r.ok
              /\ (~milestonesReached => r.st = Storage /\ r.ev = <<>>)
              /\ (milestonesReached =>
                    /\ r.st.vestedAmount = DEPLOYER_ALLOCATION
                    /\ r.st.balanceOf[Deployer]
                         = balanceOf[Deployer] + (DEPLOYER_ALLOCATION - vestedAmount)
                    /\ r.st.totalSupply
                         = totalSupply + (DEPLOYER_ALLOCATION - vestedAmount)))
    /\ [][(lastCall'.op = "claimVestedTokens" /\ lastCall'.arg >= VESTING_DURATION) =>
            /\ (~milestonesReached
                  => /\ vestedAmount' = vestedAmount
                     /\ balanceOf' = balanceOf
                     /\ totalSupply' = totalSupply
                     /\ events' = <<>>)
            /\ (milestonesReached
                  => /\ vestedAmount' = DEPLOYER_ALLOCATION
                     /\ vestedMinted' - vestedMinted = DEPLOYER_ALLOCATION - vestedAmount)]_vars

\* C16 witness: after a claim inside the window, a claim past its end with the
\* milestones not reached has gone through and released nothing
C16_Witness ==
    /\ lastCall.op = "claimVestedTokens"
    /\ lastCall.arg >= VESTING_DURATION
    /\ ~milestonesReached
    /\ events = <<>>
    /\ vestedAmount > 0
    /\ vestedAmount < DEPLOYER_ALLOCATION
    /\ balanceOf[Deployer] = vestedAmount

\* With the milestones reached and part of the allocation vested, a claim at
\* the end of the window releases the rest
C16_PartlyVestedBeforeGate ==
    /\ milestonesReached
    /\ vestedAmount > 0
    /\ vestedAmount < DEPLOYER_ALLOCATION
    /\ claimVestedTokens(Storage, Deployer, VESTING_DURATION).ev
         = <<[name |-> "DeployerTokensVested",
              amount |-> DEPLOYER_ALLOCATION - vestedAmount]>>

\* C17: setMilestonesReached succeeds only for the token's owner, the owner is
\* never the deployer, and no run in which the deployer is the only caller
\* reaches milestonesReached.
C17_DeployerCannotReachMilestones ==
    /\ \A c \in Callers : setMilestonesReached(Storage, c).ok => c = owner
    /\ owner # Deployer
    /\ deployerAlone => ~milestonesReached

\* C18: milestonesReached starts false and, once true, is true in every later
\* state; a setMilestonesReached call made when it is already true changes no
\* storage and leaves no record of a second milestone-set: it emits nothing,
\* or it fails.
C18_MilestonesSetOnce ==
    /\ (lastCall.op = "createToken" => ~milestonesReached)
    /\ [][milestonesReached => milestonesReached']_vars
    /\ [][(milestonesReached /\ lastCall'.op = "setMilestonesReached")
            => Storage' = Storage /\ events' = <<>>]_vars

\* C19: burnUnvestedTokens rejects, in the order of its checks, a caller that
\* is neither the owner nor the deployer, a timestamp not after the end of the
\* vesting window, and reached milestones; otherwise it succeeds, reports
\* exactly DEPLOYER_ALLOCATION - vestedAmount in UnvestedTokensBurned and
\* changes no storage: vestedAmount, milestonesReached, the total supply and
\* every balance are as before.
C19_BurnUnvestedOnlyReports ==
    /\ [](\A c \in Callers : \A t \in Times :
            LET r == burnUnvestedTokens(Storage, c, t)
                allowed == c = owner \/ c = Deployer
            IN
            /\ (~allowed => Rejected(r, "Unauthorized"))
            /\ ((allowed /\ t <= VESTING_DURATION) => Rejected(r, "Vesting ongoing"))
            /\ ((allowed /\ t > VESTING_DURATION /\ milestonesReached)
                  => Rejected(r, "Milestones reached"))
            /\ ((allowed /\ t > VESTING_DURATION /\ ~milestonesReached)
                  => /\ r.ok
                     /\ r.st = Storage
                     /\ r.ev = <<[name |-> "UnvestedTokensBurned",
                                  amount |-> DEPLOYER_ALLOCATION - vestedAmount]>>))
    /\ [][lastCall'.op = "burnUnvestedTokens" =>
            /\ lastCall'.sender \in {owner, Deployer}
            /\ lastCall'.arg > VESTING_DURATION
            /\ ~milestonesReached
            /\ Storage' = Storage
            /\ vestedMinted' = vestedMinted
            /\ events' = <<[name |-> "UnvestedTokensBurned",
                            amount |-> DEPLOYER_ALLOCATION - vestedAmount]>>]_vars

\* C19 witness: after a claim inside the window, the unvested rest has been
\* reported as burned and the deployer still holds what was vested
C19_Witness ==
    /\ lastCall.op = "burnUnvestedTokens"
    /\ vestedAmount > 0
    /\ events = <<[name |-> "UnvestedTokensBurned",
                   amount |-> DEPLOYER_ALLOCATION - vestedAmount]>>
    /\ balanceOf[Deployer] = vestedAmount
    /\ totalSupply >= vestedAmount

\* An owner that is not the deployer has had the unvested rest reported
C19_OwnerReports ==
    /\ lastCall.op = "burnUnvestedTokens"
    /\ lastCall.sender = owner
    /\ owner # Deployer

\* The names of a call's events, in the order of emission
NamesOf(ev) == [i \in 1..Len(ev) |-> ev[i].name]

\* C20: a successful buy emits exactly one Bought, a successful sell exactly
\* one Sold, the step on which the curve graduates exactly one Graduated (and
\* no other step any), a claim emits exactly one DeployerTokensVested when it
\* mints and none otherwise; a rejected call emits nothing; and a call's events
\* come in the order of its effects: in a graduating buy the mint is logged
\* before the graduation, and a sale, whose burn and payment are done before
\* the seller's account can act on the payment, is logged (TokensBurned, Sold)
\* before anything that account does on being paid.
C20_EventDiscipline ==
    /\ [](/\ \A c \in Buyers : \A v \in BuyAmts :
               LET r == buy(Storage, c, v) IN ~r.ok => r.ev = <<>> /\ r.st = Storage
          /\ \A c \in Users : \A a \in SellAmts(c) : \A rcv \in Receives(c, a) :
               LET r == sell(Storage, c, a, rcv) IN ~r.ok => r.ev = <<>> /\ r.st = Storage
          /\ \A c \in Callers : \A t \in Times :
               LET r == claimVestedTokens(Storage, c, t) IN ~r.ok => r.ev = <<>> /\ r.st = Storage)
    /\ [][/\ CountOf(events', "Bought") = Len(Among(CallsIn(lastCall'), {"buy"}))
          /\ CountOf(events', "Sold") = Len(Among(CallsIn(lastCall'), {"sell"}))
          /\ CountOf(events', "Graduated") = (IF hasGraduated' # hasGraduated THEN 1 ELSE 0)
          /\ CountOf(events', "DeployerTokensVested")
               = (IF lastCall'.op = "claimVestedTokens" /\ totalSupply' > totalSupply
                  THEN 1 ELSE 0)
          /\ (lastCall'.op = "buy" =>
                NamesOf(events') = IF hasGraduated'
                                   THEN <<"TokensMinted", "Graduated", "Bought">>
                                   ELSE <<"TokensMinted", "Bought">>)
          /\ (lastCall'.op = "sell" =>
                SubSeq(NamesOf(events'), 1, 2) = <<"TokensBurned", "Sold">>)
          /\ (lastCall'.op = "claimVestedTokens" =>
                \/ events' = <<>> /\ totalSupply' = totalSupply
                \/ events' = <<[name |-> "DeployerTokensVested",
                                amount |-> totalSupply' - totalSupply]>>)]_vars

\* C20 witness: a buy has graduated the curve and logged its mint, the
\* graduation and the purchase
C20_Witness ==
    /\ lastCall.op = "buy"
    /\ hasGraduated
    /\ Len(events) = 3
    /\ events[1].name = "TokensMinted" /\ events[1].amount = events[3].tokensOut
    /\ events[2].name = "Graduated" /\ events[2].marketCap >= GRADUATION_THRESHOLD
    /\ events[3].name = "Bought"

VestingCalls == {"claimVestedTokens", "setMilestonesReached", "burnUnvestedTokens"}

\* C21: claimVestedTokens, setMilestonesReached and burnUnvestedTokens leave
\* totalEthInvested, the total supply, hasGraduated and platformFeesCollected
\* as they were, and so the quoted price; the price changes only through buy
\* and sell.
C21_VestingLeavesCurveAlone ==
    [][/\ (lastCall'.op \in VestingCalls
            => /\ totalEthInvested' = totalEthInvested
               /\ totalSupply' = totalSupply
               /\ hasGraduated' = hasGraduated
               /\ platformFeesCollected' = platformFeesCollected
               /\ PriceNow' = PriceNow)
       /\ (PriceNow' # PriceNow => Ran(lastCall', {"buy", "sell"}))]_vars

\* C22: right after a successful createToken the owner of the new token is the
\* new BondingCurve, so that a buy on that curve can mint.
C22_CurveOwnsTokenAtCreation ==
    lastCall.op = "createToken" =>
        /\ owner = Curve
        /\ mint(Storage, Curve, Alice, 1).ok
        /\ buy(Storage, Alice, 500).ok

\* C23: a successful createToken with value v passes exactly
\* TOKEN_CREATION_FEE on to the platform and leaves v - TOKEN_CREATION_FEE as
\* the new curve's ether balance.
C23_CreationFeeSplit ==
    lastCall.op = "createToken" =>
        /\ platformPaid = TOKEN_CREATION_FEE
        /\ ethBalance = creationValue - TOKEN_CREATION_FEE

\* The step on which the curve graduates
Graduates == ~hasGraduated /\ hasGraduated'

\* C24: the graduating buy (made directly, or from a receiver's account while
\* it is being paid) burns exactly floor(supply * 1000 / 10000) tokens,
\* of the supply as it is once the buy's tokens are minted, out of the curve's
\* own balance: the total supply drops by exactly that amount, the buyer's
\* balance grows by exactly what was bought, and no other balance changes.
C24_GraduationBurn ==
    [][Graduates =>
        LET bought == BoughtIn(events').tokensOut
            buyer == BoughtIn(events').buyer
            given == IF lastCall'.op = "sell" THEN lastCall'.arg ELSE 0
            supply == totalSupply - given + bought
            burned == (supply * 1000) \div 10000
        IN  /\ CountOf(events', "Bought") = 1
            /\ totalSupply' = supply - burned
            /\ balanceOf'[Curve] = balanceOf[Curve] - burned
            /\ balanceOf'[Curve] >= 0
            /\ \A a \in Accounts \ {Curve} :
                 balanceOf'[a] = balanceOf[a]
                                  - (IF lastCall'.op = "sell" /\ a = lastCall'.sender
                                     THEN given ELSE 0)
                                  + (IF a = buyer THEN bought ELSE 0)]_vars

\* C24 witness: a buy has graduated the curve at a supply of 10000, and 1000
\* tokens of the curve's own were burned
C24_Witness ==
    /\ lastCall.op = "buy"
    /\ hasGraduated
    /\ CountOf(events, "Graduated") = 1
    /\ totalSupply = 9000
    /\ balanceOf[Alice] + balanceOf[Curve] = 9000
    /\ balanceOf[Alice] >= LastEvent(events).tokensOut

\* C25: the ether the curve holds is at least totalEthInvested plus
\* platformFeesCollected (no fee is counted both as collateral and as fee).
C25_Solvent == ethBalance >= totalEthInvested + platformFeesCollected

\* C26: before graduation, a sell of a positive amount that the caller holds
\* and has approved is never rejected for lack of ether in the curve.
C26_Redeemable ==
    ~hasGraduated =>
        \A c \in Users : \A a \in SellAmts(c) : \A rcv \in Receives(c, a) :
            (a > 0 /\ ~ExceedsTransferable(c, a))
            => sell(Storage, c, a, rcv).err # "Insufficient ETH"

\* C27: before graduation the quoted price is strictly positive, whatever
\* buys, sells, vesting claims and holder burns came before, so that no buy of
\* MIN_BUY or more aborts on a division by a zero price.
C27_PricePositive ==
    ~hasGraduated =>
        /\ getCurrentPrice(Storage) > 0
        /\ \A c \in Buyers : \A v \in BuyAmts :
             v >= MIN_BUY => buy(Storage, c, v).err # "Panic: division by zero"

\* C28: once a burnUnvestedTokens has succeeded, vestedAmount never grows
\* again: no later call raises it, and no claim of the deployer would.
C28_BurnIsFinal ==
    /\ [](burnReported =>
            \A t \in Times :
              claimVestedTokens(Storage, Deployer, t).st.vestedAmount = vestedAmount)
    /\ [][burnReported => vestedAmount' = vestedAmount]_vars

\* C29: the total supply grows only through the curve's buy and the deployer's
\* vesting claim, and the deployer, who buys nothing here, never holds more
\* than DEPLOYER_ALLOCATION.
C29_IssuanceClosed ==
    /\ [](balanceOf[Deployer] <= DEPLOYER_ALLOCATION)
    /\ [][totalSupply' > totalSupply
            => Ran(lastCall', {"buy", "claimVestedTokens"})]_vars

====
